---- MODULE Spec2Model ----
(***************************************************************************)
(* Quiz lifecycle of the KHCN chatbot: the quiz store, the submission      *)
(* store, the grader, the chat handler SimpleAgent.query and the endpoint  *)
(* POST /api/submission/submit.  Spec runs the two handlers, SpecStore     *)
(* calls the two stores directly, SpecGrade runs the grader alone.         *)
(*                                                                         *)
(* A text such as "1-A,2-B" is modelled by what split(',') and split('-')  *)
(* make of it: a sequence of items, each item the sequence of its parts.   *)
(***************************************************************************)
EXTENDS Integers, Sequences, FiniteSets, TLC

VARIABLES
    quizzes,      \* rows of table quizzes
    submissions,  \* rows of table submissions
    today,        \* the calendar day datetime.now() falls in
    resp,         \* response of the last request handled
    mixed,        \* the last chat message matched the submission detector
                  \* and the creation, graph or search detector as well
    procs,        \* requests in progress, one per worker thread
    gKey,         \* grader inputs: the answer key text
    gAns,         \* grader inputs: the student answer text
    gEdits,       \* number of edits applied to gAns
    gScore,       \* result of the last call of grade_submission
    gDetails      \* result of the last call of get_submission_with_details

vars == <<quizzes, submissions, today, resp, mixed, procs, gKey, gAns, gEdits, gScore, gDetails>>

storeVars == <<quizzes, submissions, today, resp, mixed>>
gradeVars == <<gKey, gAns, gEdits, gScore, gDetails>>

\* ------------------------------------------------------------------ bounds
MaxDay == 2
MaxSeq == 1
MaxEdits == 2
MaxStoreSeq == 2
MaxRaceSeq == 2

\* --------------------------------------------------------------- constants
NumQuestions == 10
MinPairs == 10
MinBarePairs == 5
ApiItems == 10

Students == {"s1", "s2"}
None == "None"

\* ------------------------------------------------------------ text helpers
\* int(num): defined on decimal numerals (surrounding blanks allowed),
\* ValueError on anything else.
IntTable ==
    ("1" :> 1) @@ ("2" :> 2) @@ ("3" :> 3) @@ ("4" :> 4) @@ ("5" :> 5) @@
    ("6" :> 6) @@ ("7" :> 7) @@ ("8" :> 8) @@ ("9" :> 9) @@ ("10" :> 10) @@
    ("11" :> 11) @@ ("1 " :> 1)

IsInt(t) == t \in DOMAIN IntTable

\* str.strip()
Strip(t) ==
    CASE t = " b" -> "b"
      [] t = "1 " -> "1"
      [] OTHER -> t

\* str.upper()
UpperNoop(t) == t

Upper(t) ==
    CASE t = "a" -> "A"
      [] t = "b" -> "B"
      [] t = "c" -> "C"
      [] t = "d" -> "D"
      [] t = "x" -> "X"
      [] OTHER -> t

NumStr == <<"1", "2", "3", "4", "5", "6", "7", "8", "9", "10">>

\* dict operations
EmptyDict == <<>>
Put(d, k, v) == [x \in (DOMAIN d) \cup {k} |-> IF x = k THEN v ELSE d[x]]
Get(d, k) == IF k \in DOMAIN d THEN d[k] ELSE None

\* ------------------------------------------------------------------ grader
\* The parsing loop of grade_submission: items with two parts are entered
\* into the dict under int(num); other items are skipped; int() may raise.
RECURSIVE ParseFrom(_, _, _)
ParseFrom(text, k, dict) ==
    IF k > Len(text)
    THEN [ok |-> TRUE, dict |-> dict]
    ELSE LET parts == text[k] IN
         IF Len(parts) = 2
         THEN IF IsInt(parts[1])
              THEN ParseFrom(text, k + 1,
                             Put(dict, IntTable[parts[1]], Upper(Strip(parts[2]))))
              ELSE [ok |-> FALSE, dict |-> dict]
         ELSE ParseFrom(text, k + 1, dict)

parse_answers(text) == ParseFrom(text, 1, EmptyDict)

grade_submission(student_answers, answer_key) ==
    LET c == parse_answers(answer_key)
        s == parse_answers(student_answers)
    IN  IF ~c.ok \/ ~s.ok
        THEN 0
        ELSE Cardinality({i \in 1..NumQuestions :
                             Get(s.dict, i) = Get(c.dict, i)})

\* dict.get(k, default)
GetOr(d, k, default) == IF k \in DOMAIN d THEN d[k] ELSE default

\* SubmissionManager.get_submission_with_details on the stored answers of a
\* submission: both texts are parsed as the grader parses them (int() is not
\* guarded here either) and each question 1..10 gets one entry
get_submission_with_details(student_answers, answer_key) ==
    LET c == parse_answers(answer_key)
        s == parse_answers(student_answers)
    IN  [ok |-> c.ok /\ s.ok,
         details |-> [i \in 1..NumQuestions |->
             [correct_answer |-> GetOr(c.dict, i, "?"),
              student_answer |-> GetOr(s.dict, i, "?"),
              is_correct |-> GetOr(s.dict, i, "?") = GetOr(c.dict, i, "?")]]]

\* -------------------------------------------------------------- quiz store
\* quiz id "quiz_<YYYYMMDD>_<NNN>": the day and the 3-digit sequence
QuizId(day, n) == <<day, n>>

\* the value standing for Python's None where a quiz row is expected
NoId == <<0, 0>>
NoQuiz == [id |-> NoId, student_id |-> None, date |-> 0, date_count |-> 0,
           answer_key |-> <<>>, status |-> None]

\* SELECT COUNT(*) FROM quizzes WHERE student_id = ? AND date LIKE today%
get_today_count(Q, day, student_id) ==
    Cardinality({q \in Q : q.student_id = student_id /\ q.date = day})

\* SELECT * FROM quizzes WHERE id = ?
get_quiz(Q, quiz_id) ==
    IF \E q \in Q : q.id = quiz_id
    THEN CHOOSE q \in Q : q.id = quiz_id
    ELSE NoQuiz

\* INSERT INTO quizzes; id is the PRIMARY KEY, so a row whose id is already
\* present raises IntegrityError and nothing is written.
insert_quizOnePending(Q, day, student_id, date_count, answer_key) ==
    IF \/ \E q \in Q : q.id = QuizId(day, date_count)
       \/ \E q \in Q : q.student_id = student_id /\ q.status = "pending"
    THEN [ok |-> FALSE, quizzes |-> Q]
    ELSE [ok |-> TRUE,
          quizzes |-> Q \cup {[id |-> QuizId(day, date_count),
                               student_id |-> student_id, date |-> day,
                               date_count |-> date_count,
                               answer_key |-> answer_key,
                               status |-> "pending"]}]

insert_quiz(Q, day, student_id, date_count, answer_key) ==
    IF \E q \in Q : q.id = QuizId(day, date_count)
    THEN [ok |-> FALSE, quizzes |-> Q]
    ELSE [ok |-> TRUE,
          quizzes |-> Q \cup {[id |-> QuizId(day, date_count),
                               student_id |-> student_id, date |-> day,
                               date_count |-> date_count,
                               answer_key |-> answer_key,
                               status |-> "pending"]}]

\* QuizStorage.save_quiz: count, build the id, INSERT
save_quiz(Q, day, student_id, answer_key) ==
    LET date_count == get_today_count(Q, day, student_id) + 1
        r == insert_quiz(Q, day, student_id, date_count, answer_key)
    IN  IF r.ok
        THEN [ok |-> TRUE, quiz_id |-> QuizId(day, date_count),
              quizzes |-> r.quizzes]
        ELSE [ok |-> FALSE, quiz_id |-> NoId, quizzes |-> Q]

\* Rows are created in (date, date_count) order for one student.
\* DELETE FROM quizzes WHERE id = ?
delete_quiz(Q, quiz_id) == {q \in Q : q.id # quiz_id}

Newer(q1, q2) ==
    \/ q1.date > q2.date
    \/ q1.date = q2.date /\ q1.date_count > q2.date_count

PendingOf(Q, student_id) ==
    {q \in Q : q.student_id = student_id /\ q.status = "pending"}

\* the most recently created pending quiz of the student, or none
get_latest_pending_quiz(Q, student_id) ==
    LET P == PendingOf(Q, student_id) IN
    IF P = {} THEN NoQuiz
    ELSE CHOOSE q \in P : \A r \in P : r = q \/ Newer(q, r)

\* UPDATE quizzes SET status = ? WHERE id = ?
update_quiz_status(Q, quiz_id, status) ==
    {IF q.id = quiz_id THEN [q EXCEPT !.status = status] ELSE q : q \in Q}

\* -------------------------------------------------------- submission store
\* SELECT COUNT(*) FROM submissions WHERE student_id = ? AND submitted_at LIKE today%
get_today_submission_countAllStudents(S, day, student_id) ==
    Cardinality({x \in S : x.submitted_at = day})

get_today_submission_count(S, day, student_id) ==
    Cardinality({x \in S : x.student_id = student_id /\ x.submitted_at = day})

\* SELECT COUNT(*) FROM submissions WHERE quiz_id = ? AND student_id = ?
check_quiz_submitted(S, quiz_id, student_id) ==
    Cardinality({x \in S : x.quiz_id = quiz_id /\ x.student_id = student_id}) > 0

\* INSERT INTO submissions; id is the PRIMARY KEY, so a row whose id is
\* already present raises IntegrityError and nothing is written.
insert_submissionOnePerQuiz(S, day, quiz_id, student_id, student_answers, score, daily_count) ==
    IF \/ \E x \in S : x.id = <<day, daily_count>>
       \/ \E x \in S : x.quiz_id = quiz_id /\ x.student_id = student_id
    THEN [ok |-> FALSE, submissions |-> S]
    ELSE [ok |-> TRUE,
          submissions |-> S \cup {[id |-> <<day, daily_count>>,
                                   quiz_id |-> quiz_id,
                                   student_id |-> student_id,
                                   student_answers |-> student_answers,
                                   score |-> score,
                                   daily_count |-> daily_count,
                                   submitted_at |-> day]}]

insert_submission(S, day, quiz_id, student_id, student_answers, score, daily_count) ==
    IF \E x \in S : x.id = <<day, daily_count>>
    THEN [ok |-> FALSE, submissions |-> S]
    ELSE [ok |-> TRUE,
          submissions |-> S \cup {[id |-> <<day, daily_count>>,
                                   quiz_id |-> quiz_id,
                                   student_id |-> student_id,
                                   student_answers |-> student_answers,
                                   score |-> score,
                                   daily_count |-> daily_count,
                                   submitted_at |-> day]}]

\* SubmissionManager.submit_quiz: count, build the id, grade, INSERT.  A
\* raised IntegrityError is turned by the except clause into success = False.
\* The count and the id read the clock one after the other; both readings
\* are taken to fall on one day.
submit_quizNoInsert(S, day, quiz_id, student_id, student_answers, answer_key) ==
    LET daily_count == get_today_submission_count(S, day, student_id) + 1
    IN  [success |-> TRUE, submission_id |-> <<day, daily_count>>,
         score |-> grade_submission(student_answers, answer_key),
         daily_count |-> daily_count, submissions |-> S]

submit_quiz(S, day, quiz_id, student_id, student_answers, answer_key) ==
    LET daily_count == get_today_submission_count(S, day, student_id) + 1
        score == grade_submission(student_answers, answer_key)
        r == insert_submission(S, day, quiz_id, student_id, student_answers,
                               score, daily_count)
    IN  IF r.ok
        THEN [success |-> TRUE, submission_id |-> <<day, daily_count>>,
              score |-> score, daily_count |-> daily_count,
              submissions |-> r.submissions]
        ELSE [success |-> FALSE, submission_id |-> NoId, score |-> 0,
              daily_count |-> 0, submissions |-> S]

\* ---------------------------------------------------------------- messages
\* A chat message is modelled by what the detectors read from it:
\*   submitKw  it contains one of the submission keywords
\*   createKw  it matches a creation keyword or creation regex
\*   pairs     the matches of (\d+)\s*-?\s*([A-D]) in the lowercased text
\*   dashed    the pairs are written "n-L" one after another
\*   feature   what the remaining detectors make of it
KeyLetters == <<"A", "B", "C", "D", "A", "B", "C", "D", "A", "B">>
Lower(t) ==
    CASE t = "A" -> "a"
      [] t = "B" -> "b"
      [] t = "C" -> "c"
      [] t = "D" -> "d"
      [] OTHER -> t

\* "1-A,2-B,3-C,4-D,5-A,6-B,7-C,8-D,9-A,10-B"
KeyFull == [i \in 1..NumQuestions |-> <<NumStr[i], KeyLetters[i]>>]

PairsRight == [i \in 1..NumQuestions |-> <<NumStr[i], Lower(KeyLetters[i])>>]
PairTexts ==
    { <<>>,
      SubSeq(PairsRight, 1, 9),
      PairsRight }

\* "dashed" says how the pairs are written, so it needs pairs; a graph or
\* search request carries no answer list or a full one
Messages ==
    { m \in [submitKw : BOOLEAN, createKw : BOOLEAN, pairs : PairTexts,
             dashed : BOOLEAN, feature : {"graph", "search", "chat"}] :
        /\ m.dashed => m.pairs # <<>>
        /\ m.feature # "chat" =>
              \/ m.pairs = <<>>
              \/ m.pairs = PairsRight /\ m.dashed }

\* outcomes of the external collaborators during one request: the leakage
\* verdict of the guard, the topic extraction, the quiz generator
Externals ==
    [topic : {"none", "not_allowed", "ok"},
     gen : {"error", "no_key", "ok"},
     leak : BOOLEAN]

\* keyword match, or at least five "n-L" pairs in a row
should_submit_quiz(m) ==
    m.submitKw \/ (m.dashed /\ Len(m.pairs) >= MinBarePairs)

should_create_quiz(m) == m.createKw

\* a submission message that _should_create_quiz, _should_draw_graph or
\* _should_use_tool accepts as well
matches_other_detector(m) ==
    /\ should_submit_quiz(m)
    /\ should_create_quiz(m) \/ m.feature # "chat"

\* The outcomes that can matter for message m: the topic extraction and the
\* generator are called only for creation requests, and the generator only
\* after a topic was extracted; the guard is called only for messages that
\* are neither submissions nor creation requests.
ExternalsFor(m) ==
    { e \in Externals :
        /\ ~should_create_quiz(m) => e.topic = "ok" /\ e.gen = "ok"
        /\ e.topic # "ok" => e.gen = "ok"
        /\ (should_create_quiz(m) \/ should_submit_quiz(m)) => ~e.leak }

\* fewer than 10 matches: None (the empty text); otherwise the first 10
\* matches, letters upper-cased, joined as "n-L"
extract_answersOffByOne(m) ==
    IF Len(m.pairs) < MinPairs - 1
    THEN <<>>
    ELSE [i \in 1..(IF Len(m.pairs) < MinPairs THEN Len(m.pairs) ELSE MinPairs)
            |-> <<m.pairs[i][1], Upper(m.pairs[i][2])>>]

extract_answers(m) ==
    IF Len(m.pairs) < MinPairs
    THEN <<>>
    ELSE [i \in 1..MinPairs |-> <<m.pairs[i][1], Upper(m.pairs[i][2])>>]

\* ------------------------------------------------------------ chat handler
\* what a handler returns to the model: the kind of response, the quiz id
\* the response text names, the stores as the handler leaves them, and
\* whether the quiz generator was called
Outcome(kind, quiz_id, Q, S, generated) ==
    [kind |-> kind, quiz_id |-> quiz_id, quizzes |-> Q, submissions |-> S,
     generated |-> generated]

\* "Update quiz status to completed", the step after a stored submission
mark_completedSkipped(Q, quiz_id) == Q

mark_completed(Q, quiz_id) == update_quiz_status(Q, quiz_id, "completed")

\* SimpleAgent.query, submission branch under a pending quiz
chat_submission(Q, S, day, student_id, m, pending_quiz) ==
    LET answers == extract_answers(m)
        quiz == get_quiz(Q, pending_quiz.id)
        answer_key == quiz.answer_key
        result == submit_quiz(S, day, pending_quiz.id, student_id,
                              answers, answer_key)
    IN  IF answers = <<>>
        THEN Outcome("format_error", pending_quiz.id, Q, S, FALSE)
        ELSE IF quiz.id = NoId
        THEN Outcome("quiz_not_found", pending_quiz.id, Q, S, FALSE)
        ELSE IF check_quiz_submitted(S, pending_quiz.id, student_id)
        THEN Outcome("already_submitted", pending_quiz.id, Q, S, FALSE)
        ELSE IF answer_key = <<>>
        THEN Outcome("missing_answer_key", NoId, Q, S, FALSE)
        ELSE IF ~result.success
        THEN Outcome("submit_failed", NoId, Q, S, FALSE)
        \* the row is stored and the status updated; building the result
        \* message then reads result["duration"], a key submit_quiz never
        \* sets, and the except clause returns the error text
        ELSE Outcome("submit_exception", NoId,
                     mark_completed(Q, pending_quiz.id),
                     result.submissions, FALSE)

\* result["answer_key"] of the generator: the key, or nothing
generated_key(ext) == IF ext.gen = "ok" THEN KeyFull ELSE <<>>

\* result["success"] is false: generate_quiz caught an exception
generation_failedNever(ext) == FALSE

generation_failed(ext) == ext.gen = "error"

\* "Check if has answer_key": not result.get("answer_key")
answer_key_missingNever(ext) == FALSE

answer_key_missing(ext) == generated_key(ext) = <<>>

\* SimpleAgent.query, creation branch
chat_creation(Q, S, day, student_id, ext) ==
    IF ext.topic = "none"
    THEN Outcome("topic_not_understood", NoId, Q, S, FALSE)
    ELSE IF ext.topic = "not_allowed"
    THEN Outcome("subject_not_allowed", NoId, Q, S, FALSE)
    ELSE IF generation_failed(ext)
    THEN Outcome("generation_failed", NoId, Q, S, TRUE)
    ELSE IF answer_key_missing(ext)
    THEN Outcome("creation_no_answer_key", NoId, Q, S, TRUE)
    \* an exception of save_quiz is caught and only logged
    ELSE Outcome("quiz_created", NoId,
                 save_quiz(Q, day, student_id, generated_key(ext)).quizzes,
                 S, TRUE)

\* submission intent without a pending quiz: the early return
nothing_to_submitNever(pending_quiz, m) == FALSE

nothing_to_submit(pending_quiz, m) ==
    should_submit_quiz(m) /\ pending_quiz.id = NoId

\* "PRIORITY 1: Block new quiz creation" under a pending quiz
creation_is_blockedNever(pending_quiz, m) == FALSE

creation_is_blocked(pending_quiz, m) ==
    pending_quiz.id # NoId /\ should_create_quiz(m)

\* "NEW: CHECK SUBMISSION INTENT": under a pending quiz the submission test
\* comes before every other detector
submission_is_routedUnlessCreation(pending_quiz, m) ==
    pending_quiz.id # NoId /\ should_submit_quiz(m) /\ ~should_create_quiz(m)

submission_is_routed(pending_quiz, m) ==
    pending_quiz.id # NoId /\ should_submit_quiz(m)

\* "PRIORITY 2: Check if cheating": the guard's verdict under a pending quiz
leak_is_blockedNever(pending_quiz, ext) == FALSE

leak_is_blocked(pending_quiz, ext) == pending_quiz.id # NoId /\ ext.leak

\* SimpleAgent.query
query(Q, S, day, student_id, m, ext) ==
    LET pending_quiz == get_latest_pending_quiz(Q, student_id) IN
    IF nothing_to_submit(pending_quiz, m)
    THEN Outcome("nothing_to_submit", NoId, Q, S, FALSE)
    ELSE IF submission_is_routed(pending_quiz, m)
    THEN chat_submission(Q, S, day, student_id, m, pending_quiz)
    ELSE IF creation_is_blocked(pending_quiz, m)
    THEN Outcome("creation_blocked", NoId, Q, S, FALSE)
    ELSE IF leak_is_blocked(pending_quiz, ext)
    THEN Outcome("leak_blocked", NoId, Q, S, FALSE)
    ELSE IF should_create_quiz(m)
    THEN chat_creation(Q, S, day, student_id, ext)
    ELSE IF m.feature = "graph"
    THEN Outcome("graph", NoId, Q, S, FALSE)
    ELSE Outcome("answer", NoId, Q, S, FALSE)

\* ------------------------------------------- POST /api/submission/submit
\* the query parameter answers, as split(',') and split('-') read it
ApiAnswerTexts ==
    { KeyFull,
      [KeyFull EXCEPT ![1] = <<"x", "A">>],
      SubSeq(KeyFull, 1, 9),
      << <<"">> >> }

\* checks 3 and 4 of the endpoint: the quiz is no longer pending, or a
\* submission of this student for this quiz is stored
api_already_submittedNever(Q, S, quiz_id, student_id) == FALSE

api_already_submitted(Q, S, quiz_id, student_id) ==
    \/ get_quiz(Q, quiz_id).status # "pending"
    \/ check_quiz_submitted(S, quiz_id, student_id)

\* check 2 of the endpoint: the quiz belongs to another student
api_not_ownerNever(quiz, student_id) == FALSE

api_not_owner(quiz, student_id) == quiz.student_id # student_id

api_submit_quiz(Q, S, day, quiz_id, student_id, answers) ==
    LET quiz == get_quiz(Q, quiz_id)
        answer_key == quiz.answer_key
        result == submit_quiz(S, day, quiz_id, student_id, answers, answer_key)
    IN  IF quiz.id = NoId
        THEN Outcome("404_quiz_not_found", quiz_id, Q, S, FALSE)
        ELSE IF api_not_owner(quiz, student_id)
        THEN Outcome("403_not_owner", NoId, Q, S, FALSE)
        ELSE IF api_already_submitted(Q, S, quiz_id, student_id)
        THEN Outcome("400_already_submitted", NoId, Q, S, FALSE)
        ELSE IF answers = << <<"">> >> \/ Len(answers) # ApiItems
        THEN Outcome("400_bad_format", NoId, Q, S, FALSE)
        ELSE IF answer_key = <<>>
        THEN Outcome("500_missing_answer_key", NoId, Q, S, FALSE)
        ELSE IF ~result.success
        THEN Outcome("500_submit_failed", NoId, Q, S, FALSE)
        ELSE Outcome("200_submitted", result.submission_id,
                     mark_completed(Q, quiz_id),
                     result.submissions, FALSE)

\* ------------------------------------------------------------ state machine
NoResp == "none"

QuizIds == (1..MaxDay) \X (1..MaxSeq)

WithinBounds(Q, S) ==
    /\ \A q \in Q : q.date_count <= MaxSeq
    /\ \A x \in S : x.daily_count <= MaxSeq

GradeIdle ==
    /\ gKey = <<>>
    /\ gAns = <<>>
    /\ gEdits = 0
    /\ gScore = 0
    /\ gDetails = <<>>

\* the worker threads of the server and what one of them holds while it
\* handles a request: where it is, whose request, which quiz, the count read
Procs == {"p1", "p2"}
IdleProc == [pc |-> "idle", student_id |-> None, quiz_id |-> NoId, count |-> 0]
NoProcs == [p \in Procs |-> IdleProc]

Init ==
    /\ quizzes = {}
    /\ submissions = {}
    /\ today = 1
    /\ resp = NoResp
    /\ mixed = FALSE
    /\ procs = NoProcs
    /\ GradeIdle

\* one chat request of a student, handled to the end
Chat(student_id, m, ext) ==
    \E r \in {query(quizzes, submissions, today, student_id, m, ext)} :
    /\ WithinBounds(r.quizzes, r.submissions)
    /\ quizzes' = r.quizzes
    /\ submissions' = r.submissions
    /\ resp' = r.kind
    /\ mixed' = matches_other_detector(m)
    /\ UNCHANGED <<today, gradeVars, procs>>

\* one request to POST /api/submission/submit, handled to the end
ApiSubmit(quiz_id, student_id, answers) ==
    \E r \in {api_submit_quiz(quizzes, submissions, today, quiz_id,
                             student_id, answers)} :
    /\ WithinBounds(r.quizzes, r.submissions)
    /\ quizzes' = r.quizzes
    /\ submissions' = r.submissions
    /\ resp' = r.kind
    /\ mixed' = FALSE
    /\ UNCHANGED <<today, gradeVars, procs>>

\* midnight passes
NextDay ==
    /\ today < MaxDay
    /\ today' = today + 1
    /\ UNCHANGED <<quizzes, submissions, resp, mixed, gradeVars, procs>>

Next ==
    \/ \E s \in Students, m \in Messages :
          \E ext \in ExternalsFor(m) : Chat(s, m, ext)
    \/ \E id \in QuizIds, s \in Students, a \in ApiAnswerTexts :
          ApiSubmit(id, s, a)
    \/ NextDay

Spec == Init /\ [][Next]_vars

\* ------------------------------------------------- the chat endpoint of app.py
\* app.py builds one ScienceQASystem() for the whole process, without a
\* student id; SimpleAgent.query then works under "unknown" (no profile file
\* is part of the repository)
AgentStudent == "unknown"

\* POST /api/rag/query in a session of session_student: the session is looked
\* up and its owner verified, then rag_system.query(user_input, history) is
\* called; the owner is not handed on
rag_query(Q, S, day, session_student, m, ext) ==
    query(Q, S, day, AgentStudent, m, ext)

RagQuery(session_student, m, ext) ==
    \E r \in {rag_query(quizzes, submissions, today, session_student, m, ext)} :
    /\ WithinBounds(r.quizzes, r.submissions)
    /\ quizzes' = r.quizzes
    /\ submissions' = r.submissions
    /\ resp' = r.kind
    /\ mixed' = matches_other_detector(m)
    /\ UNCHANGED <<today, gradeVars, procs>>

\* the chat endpoint, the submit endpoint with the student id its caller
\* gives, and the calendar
NextRag ==
    \/ \E s \in Students, m \in Messages :
          \E ext \in ExternalsFor(m) : RagQuery(s, m, ext)
    \/ \E id \in QuizIds, s \in Students \cup {AgentStudent},
          a \in ApiAnswerTexts : ApiSubmit(id, s, a)
    \/ NextDay

SpecRag == Init /\ [][NextRag]_vars

\* ----------------------------------------------- the stores called directly
\* QuizStorage and SubmissionManager are used here without the handlers in
\* front of them: any student saves quizzes and submits answers in any order.
StoreAnswerTexts == {KeyFull}

\* QuizStorage.save_quiz(student_id, ...); a raised IntegrityError leaves
\* the table as it was
SaveQuiz(student_id) ==
    \E r \in {save_quiz(quizzes, today, student_id, KeyFull)} :
    /\ get_today_count(quizzes, today, student_id) < MaxStoreSeq
    /\ quizzes' = r.quizzes
    /\ resp' = IF r.ok THEN "saved" ELSE "save_raised"
    /\ UNCHANGED <<submissions, today, mixed, gradeVars, procs>>

\* SubmissionManager.submit_quiz(quiz_id, student_id, answers, answer_key)
\* for a stored quiz and its owner
SubmitQuiz(q, answers) ==
    \E r \in {submit_quiz(submissions, today, q.id, q.student_id, answers,
                          q.answer_key)} :
    /\ get_today_submission_count(submissions, today, q.student_id)
          < MaxStoreSeq
    /\ submissions' = r.submissions
    /\ resp' = IF r.success THEN "stored" ELSE "submit_error"
    /\ UNCHANGED <<quizzes, today, mixed, gradeVars, procs>>

NextStore ==
    \/ \E s \in Students : SaveQuiz(s)
    \/ \E q \in quizzes, a \in StoreAnswerTexts : SubmitQuiz(q, a)
    \/ NextDay

SpecStore == Init /\ [][NextStore]_vars

\* QuizStorage.delete_quiz(quiz_id) for a stored quiz
DeleteQuiz(q) ==
    /\ quizzes' = delete_quiz(quizzes, q.id)
    /\ resp' = "deleted"
    /\ UNCHANGED <<submissions, today, mixed, gradeVars, procs>>

\* the quiz store alone: quizzes are saved and deleted in any order
NextDelete ==
    \/ \E s \in Students : SaveQuiz(s)
    \/ \E q \in quizzes : DeleteQuiz(q)
    \/ NextDay

SpecDelete == Init /\ [][NextDelete]_vars

\* ------------------------------------------- requests handled concurrently
\* The endpoints are plain "def" functions, which the server runs in worker
\* threads; every store call opens its own connection and commits on its
\* own.  One step is one store call of one request.  The calendar day does
\* not change here.
Working(p, pc, student_id, quiz_id, count) ==
    procs' = [procs EXCEPT ![p] = [pc |-> pc, student_id |-> student_id,
                                   quiz_id |-> quiz_id, count |-> count]]

Finished(p, kind) ==
    /\ procs' = [procs EXCEPT ![p] = IdleProc]
    /\ resp' = kind

\* a creation request reads the pending quiz of its student (query.py:564);
\* topic extraction and generation succeed
CreateCheck(p, student_id) ==
    /\ procs[p].pc = "idle"
    /\ IF get_latest_pending_quiz(quizzes, student_id).id # NoId
       THEN Finished(p, "creation_blocked")
       ELSE Working(p, "create_checked", student_id, NoId, 0) /\ UNCHANGED resp
    /\ UNCHANGED <<quizzes, submissions, today, mixed, gradeVars>>

\* save_quiz reads the student's count of today
CreateCount(p) ==
    /\ procs[p].pc = "create_checked"
    /\ get_today_count(quizzes, today, procs[p].student_id) < MaxRaceSeq
    /\ Working(p, "create_counted", procs[p].student_id, NoId,
               get_today_count(quizzes, today, procs[p].student_id) + 1)
    /\ UNCHANGED <<quizzes, submissions, today, resp, mixed, gradeVars>>

\* save_quiz inserts the row; the handler answers "created" either way
CreateInsert(p) ==
    /\ procs[p].pc = "create_counted"
    /\ quizzes' = insert_quiz(quizzes, today, procs[p].student_id,
                              procs[p].count, KeyFull).quizzes
    /\ Finished(p, "quiz_created")
    /\ UNCHANGED <<submissions, today, mixed, gradeVars>>

\* a submit request runs its checks (app.py:855-870, query.py:593-605)
SubmitCheck(p, quiz_id, student_id) ==
    /\ procs[p].pc = "idle"
    /\ LET quiz == get_quiz(quizzes, quiz_id) IN
       IF quiz.id = NoId
       THEN Finished(p, "404_quiz_not_found")
       ELSE IF api_not_owner(quiz, student_id)
       THEN Finished(p, "403_not_owner")
       ELSE IF api_already_submitted(quizzes, submissions, quiz_id, student_id)
       THEN Finished(p, "400_already_submitted")
       ELSE Working(p, "submit_checked", student_id, quiz_id, 0)
            /\ UNCHANGED resp
    /\ UNCHANGED <<quizzes, submissions, today, mixed, gradeVars>>

\* submit_quiz reads the student's count of today
SubmitCount(p) ==
    /\ procs[p].pc = "submit_checked"
    /\ get_today_submission_count(submissions, today, procs[p].student_id)
          < MaxRaceSeq
    /\ Working(p, "submit_counted", procs[p].student_id, procs[p].quiz_id,
               get_today_submission_count(submissions, today,
                                          procs[p].student_id) + 1)
    /\ UNCHANGED <<quizzes, submissions, today, resp, mixed, gradeVars>>

\* submit_quiz grades and inserts the row
SubmitInsert(p) ==
    \E r \in {insert_submission(
                 submissions, today, procs[p].quiz_id, procs[p].student_id,
                 KeyFull,
                 grade_submission(KeyFull,
                                  get_quiz(quizzes, procs[p].quiz_id).answer_key),
                 procs[p].count)} :
    /\ procs[p].pc = "submit_counted"
    /\ submissions' = r.submissions
    /\ IF r.ok
       THEN Working(p, "submit_stored", procs[p].student_id,
                    procs[p].quiz_id, procs[p].count) /\ UNCHANGED resp
       ELSE Finished(p, "500_submit_failed")
    /\ UNCHANGED <<quizzes, today, mixed, gradeVars>>

\* update_quiz_status(quiz_id, "completed") and the answer
SubmitUpdate(p) ==
    /\ procs[p].pc = "submit_stored"
    /\ quizzes' = mark_completed(quizzes, procs[p].quiz_id)
    /\ Finished(p, "200_submitted")
    /\ UNCHANGED <<submissions, today, mixed, gradeVars>>

\* the request ends after the row is stored and before the status is
\* updated: update_quiz_status raises, or the worker is stopped
SubmitDies(p) ==
    /\ procs[p].pc = "submit_stored"
    /\ Finished(p, "request_died")
    /\ UNCHANGED <<quizzes, submissions, today, mixed, gradeVars>>

RaceQuizIds == {1} \X (1..MaxRaceSeq)

NextRace ==
    \/ \E p \in Procs, s \in Students : CreateCheck(p, s)
    \/ \E p \in Procs : CreateCount(p)
    \/ \E p \in Procs : CreateInsert(p)
    \/ \E p \in Procs, id \in RaceQuizIds, s \in Students :
          SubmitCheck(p, id, s)
    \/ \E p \in Procs : SubmitCount(p)
    \/ \E p \in Procs : SubmitInsert(p)
    \/ \E p \in Procs : SubmitUpdate(p)
    \/ \E p \in Procs : SubmitDies(p)

SpecRace == Init /\ [][NextRace]_vars

\* ----------------------------------------------- grader as a state machine
\* The grader is a pure function; its inputs are drawn from these texts and
\* then edited item by item.
EmptyText == << <<"">> >>
KeyLower == PairsRight
KeyShort == SubSeq(KeyFull, 1, 9)

GradeKeys == {KeyFull, KeyLower, KeyShort, EmptyText}
GradeTexts == {KeyFull, PairsRight, EmptyText}
EditPositions == {1, 10}
EditLetters == {"B", "c", " b"}
ExtraItems == { <<"11", "A">>, <<"1 ", "B">> }

InitGrade ==
    /\ quizzes = {}
    /\ submissions = {}
    /\ today = 1
    /\ resp = NoResp
    /\ mixed = FALSE
    /\ procs = NoProcs
    /\ gKey \in GradeKeys
    /\ gAns \in GradeTexts
    /\ gEdits = 0
    /\ gScore = -1
    /\ gDetails = <<>>

Edited(text) ==
    /\ gEdits < MaxEdits
    /\ gAns' = text
    /\ gEdits' = gEdits + 1
    /\ gScore' = -1
    /\ gDetails' = <<>>
    /\ UNCHANGED <<gKey, storeVars, procs>>

\* the student changes the letter of one answer
SetAnswer(k, letter) ==
    /\ k \in 1..Len(gAns)
    /\ Len(gAns[k]) = 2
    /\ Edited([gAns EXCEPT ![k] = <<gAns[k][1], letter>>])

\* the student leaves one answer out
DropAnswer(k) ==
    /\ k \in 1..Len(gAns)
    /\ Len(gAns) > 1
    /\ Edited(SubSeq(gAns, 1, k - 1) \o SubSeq(gAns, k + 1, Len(gAns)))

\* the question number of one entry is not a number
MalformAnswer(k) ==
    /\ k \in 1..Len(gAns)
    /\ Len(gAns[k]) = 2
    /\ Edited([gAns EXCEPT ![k] = <<"x", gAns[k][2]>>])

\* one entry is written without the dash
UnsplitAnswer(k) ==
    /\ k \in 1..Len(gAns)
    /\ Edited([gAns EXCEPT ![k] = <<"3C">>])

\* one more entry at the end
AppendAnswer(item) ==
    Edited(gAns \o <<item>>)

\* grade_submission is called on the current inputs
Grade ==
    /\ gScore = -1
    /\ gScore' = grade_submission(gAns, gKey)
    /\ UNCHANGED <<gKey, gAns, gEdits, gDetails, storeVars, procs>>

\* get_submission_with_details is called on the current inputs; the view is
\* returned to the caller and no row is written
Details ==
    /\ gDetails = <<>>
    /\ \E d \in {get_submission_with_details(gAns, gKey)} :
          gDetails' = IF d.ok THEN d.details ELSE <<>>
    /\ UNCHANGED <<gKey, gAns, gEdits, gScore, storeVars, procs>>

NextGrade ==
    \/ \E k \in EditPositions, letter \in EditLetters : SetAnswer(k, letter)
    \/ \E k \in EditPositions : DropAnswer(k)
    \/ \E k \in EditPositions : MalformAnswer(k)
    \/ \E k \in EditPositions : UnsplitAnswer(k)
    \/ \E item \in ExtraItems : AppendAnswer(item)
    \/ Grade
    \/ Details

SpecGrade == InitGrade /\ [][NextGrade]_vars

\* ------------------------------------------------------------------ claims
ChatInputs ==
    { <<s, m, ext>> \in Students \X Messages \X Externals :
         ext \in ExternalsFor(m) }

ChatOutcome(in) == query(quizzes, submissions, today, in[1], in[2], in[3])

ApiInputs == QuizIds \X Students \X ApiAnswerTexts

ApiOutcome(in) ==
    api_submit_quiz(quizzes, submissions, today, in[1], in[2], in[3])

HasPending(student_id) == PendingOf(quizzes, student_id) # {}

RowsFor(S, quiz_id, student_id) ==
    {x \in S : x.quiz_id = quiz_id /\ x.student_id = student_id}

\* C1: in every state reached by requests handled one at a time, each
\* student has at most one quiz with status pending.
C1_SinglePending ==
    \A s \in Students : Cardinality(PendingOf(quizzes, s)) <= 1

\* a student who completed one quiz and has the next one pending
C1_Witness ==
    \E s \in Students :
        /\ \E q \in quizzes : q.student_id = s /\ q.status = "completed"
        /\ Cardinality(PendingOf(quizzes, s)) = 1

\* C2: in every state reached by chat and endpoint submits handled one at a
\* time, the submission store holds at most one row per (quiz_id, student_id).
C2_OneSubmissionPerQuiz ==
    \A q \in quizzes, s \in Students :
        Cardinality(RowsFor(submissions, q.id, s)) <= 1

\* a stored submission whose resubmission through the endpoint was refused
C2_Witness ==
    /\ resp = "400_already_submitted"
    /\ submissions # {}

C4_CreationBlocked ==
    \A in \in ChatInputs :
        (/\ HasPending(in[1])
         /\ should_create_quiz(in[2])
         /\ ~should_submit_quiz(in[2]))
        => LET r == ChatOutcome(in) IN
           /\ r.kind = "creation_blocked"
           /\ ~r.generated
           /\ r.quizzes = quizzes

\* a creation request was just rejected and the pending quiz is still there
C4_Witness ==
    /\ resp = "creation_blocked"
    /\ \E s \in Students : HasPending(s)

\* C5: submit_quiz called again with the arguments of a stored submission
\* reports an error, stores no second row and leaves the recorded score.
C5_DuplicateSubmitRefused ==
    \A x \in submissions :
        LET key == get_quiz(quizzes, x.quiz_id).answer_key
            r == submit_quiz(submissions, today, x.quiz_id, x.student_id,
                             x.student_answers, key)
        IN  /\ ~r.success
            /\ r.submissions = submissions

\* C9: a submission message with fewer than 10 parsed pairs leaves both
\* stores unchanged (no row, no daily sequence number used, the quiz still
\* pending), and under a pending quiz it gets the format-error response.
C9_ShortSubmissionChangesNothing ==
    \A in \in ChatInputs :
        (should_submit_quiz(in[2]) /\ Len(in[2].pairs) < MinPairs)
        => LET r == ChatOutcome(in) IN
           /\ HasPending(in[1]) => r.kind = "format_error"
           /\ r.submissions = submissions
           /\ r.quizzes = quizzes
           /\ get_today_submission_count(r.submissions, today, in[1])
                 = get_today_submission_count(submissions, today, in[1])

\* the format error was just returned and the quiz is still pending
C9_Witness ==
    /\ resp = "format_error"
    /\ \E s \in Students : HasPending(s)

\* C10: a message with submission intent from a student without a pending
\* quiz gets the nothing-to-submit response and changes neither store.
C10_NothingToSubmit ==
    \A in \in ChatInputs :
        (should_submit_quiz(in[2]) /\ ~HasPending(in[1]))
        => LET r == ChatOutcome(in) IN
           /\ r.kind = "nothing_to_submit"
           /\ r.quizzes = quizzes
           /\ r.submissions = submissions

\* nothing-to-submit was just returned in a state that already holds quizzes
C10_Witness ==
    /\ resp = "nothing_to_submit"
    /\ quizzes # {}
    /\ \E s \in Students : ~HasPending(s)

\* ---- grader claims, stated without the grader's own helpers
LetterClass(t) ==
    CASE t \in {"A", "a"} -> 1
      [] t \in {"B", "b", " b"} -> 2
      [] t \in {"C", "c"} -> 3
      [] t \in {"D", "d"} -> 4
      [] OTHER -> 0

WellFormedEntry(item) ==
    /\ Len(item) = 2
    /\ IsInt(item[1])
    /\ LetterClass(item[2]) # 0

EntryNumbers(text) ==
    {IntTable[text[k][1]] : k \in {j \in 1..Len(text) : WellFormedEntry(text[j])}}

DistinctNumbers(text) ==
    \A j, k \in 1..Len(text) :
        (j # k /\ WellFormedEntry(text[j]) /\ WellFormedEntry(text[k]))
        => IntTable[text[j][1]] # IntTable[text[k][1]]

WellFormedAnswers(text) ==
    /\ text = EmptyText \/ \A k \in 1..Len(text) : WellFormedEntry(text[k])
    /\ DistinctNumbers(text)

CompleteKey(text) ==
    /\ \A k \in 1..Len(text) : WellFormedEntry(text[k])
    /\ DistinctNumbers(text)
    /\ EntryNumbers(text) = 1..NumQuestions

\* entry k of ans answers a question 1..10 with the key's letter
EntryCorrect(ans, key, k) ==
    /\ WellFormedEntry(ans[k])
    /\ IntTable[ans[k][1]] \in 1..NumQuestions
    /\ \E j \in 1..Len(key) :
          /\ WellFormedEntry(key[j])
          /\ IntTable[key[j][1]] = IntTable[ans[k][1]]
          /\ LetterClass(key[j][2]) = LetterClass(ans[k][2])

MatchCount(ans, key) ==
    Cardinality({IntTable[ans[k][1]] :
                    k \in {j \in 1..Len(ans) : EntryCorrect(ans, key, j)}})

\* C6: an empty answer set scores 0 against every key, and a question
\* missing from the student's answers or from the key is never counted.
C6_MissingNeverMatches ==
    /\ grade_submission(EmptyText, gKey) = 0
    /\ (parse_answers(gAns).ok /\ parse_answers(gKey).ok)
       => grade_submission(gAns, gKey)
             <= Cardinality((DOMAIN parse_answers(gAns).dict)
                            \cap (DOMAIN parse_answers(gKey).dict)
                            \cap (1..NumQuestions))

\* C7: for a complete key and a well-formed answer set the score is the
\* number of questions 1..10 answered with the key's letter, ignoring case;
\* answers identical to the key score 10; replacing one correct answer by a
\* different letter lowers the score by exactly 1.
C7_GradeCountsMatches ==
    (CompleteKey(gKey) /\ WellFormedAnswers(gAns))
    => /\ grade_submission(gAns, gKey) = MatchCount(gAns, gKey)
       /\ grade_submission(gKey, gKey) = NumQuestions
       /\ \A k \in 1..Len(gAns), letter \in {"A", "B", "C", "D"} :
             (/\ EntryCorrect(gAns, gKey, k)
              /\ LetterClass(letter) # LetterClass(gAns[k][2]))
             => grade_submission([gAns EXCEPT ![k] = <<gAns[k][1], letter>>],
                                 gKey)
                   = grade_submission(gAns, gKey) - 1

\* one correct answer of a full answer set was changed and the result graded 9
C7_Witness ==
    /\ CompleteKey(gKey)
    /\ WellFormedAnswers(gAns)
    /\ gEdits = 1
    /\ Len(gAns) = NumQuestions
    /\ gScore = NumQuestions - 1

\* C8: a malformed entry of the student's answers loses only itself: every
\* well-formed entry that equals the key is still counted.
C8_MalformedEntryLosesOnlyItself ==
    (CompleteKey(gKey) /\ DistinctNumbers(gAns))
    => grade_submission(gAns, gKey) >= MatchCount(gAns, gKey)

\* ---- lifecycle guard claims
\* the kinds of response the submission branch of query can end in
GradingKinds ==
    {"format_error", "quiz_not_found", "already_submitted",
     "missing_answer_key", "submit_failed", "submit_exception"}

\* the kinds of response that tell the user the request was refused or failed
ChatRejections ==
    GradingKinds \cup
    {"nothing_to_submit", "creation_blocked", "leak_blocked",
     "topic_not_understood", "subject_not_allowed", "generation_failed",
     "creation_no_answer_key"}

ApiRejections ==
    {"404_quiz_not_found", "403_not_owner", "400_already_submitted",
     "400_bad_format", "500_missing_answer_key", "500_submit_failed"}

\* a creation request that reaches the creation branch
CreationProceeds(in) ==
    /\ should_create_quiz(in[2])
    /\ ~should_submit_quiz(in[2])
    /\ ~HasPending(in[1])

\* C11: a creation request rejected because of a pending quiz gets a
\* response that names the id of that quiz, and no quiz row is written.
C11_BlockedNamesOpenQuiz ==
    \A in \in ChatInputs :
        (/\ HasPending(in[1])
         /\ should_create_quiz(in[2])
         /\ ~should_submit_quiz(in[2]))
        => LET r == ChatOutcome(in) IN
           /\ r.kind = "creation_blocked"
           /\ r.quiz_id = get_latest_pending_quiz(quizzes, in[1]).id
           /\ r.quizzes = quizzes

\* what the guard and the generator may say once a topic was extracted
Verdicts == {e \in Externals : e.topic = "ok"}

\* C12: under a pending quiz a message classified as a submission ends in
\* one of the responses of the grading path whatever else it matches and
\* whatever the guard and the generator would say: never the
\* creation-blocked or the leakage response, and the generator is not called.
C12_SubmissionAlwaysGraded ==
    \A s \in Students, m \in Messages :
        (HasPending(s) /\ should_submit_quiz(m))
        => \A r \in {query(quizzes, submissions, today, s, m,
                           [topic |-> "none", gen |-> "ok", leak |-> FALSE])} :
              /\ r.kind \in GradingKinds
              /\ ~r.generated
              /\ \A ext \in Verdicts :
                    query(quizzes, submissions, today, s, m, ext) = r

\* a message that is a submission and a creation, graph or search request
\* as well was just graded
C12_Witness ==
    /\ mixed
    /\ resp = "submit_exception"
    /\ \E q \in quizzes : q.status = "completed"

\* C13: a chat or endpoint request that ends in a rejection or error
\* response leaves the quiz store and the submission store unchanged.
C13_RejectionChangesNothing ==
    /\ \A in \in ChatInputs :
          LET r == ChatOutcome(in) IN
          r.kind \in ChatRejections
          => r.quizzes = quizzes /\ r.submissions = submissions
    /\ \A in \in ApiInputs :
          LET r == ApiOutcome(in) IN
          r.kind \in ApiRejections
          => r.quizzes = quizzes /\ r.submissions = submissions

\* C14: every completed quiz has a submission row of its owner, and a quiz
\* leaves the pending state only in a step that stores such a row.
C14_CompletedHasSubmission ==
    /\ [](\A q \in quizzes :
             q.status = "completed"
             => check_quiz_submitted(submissions, q.id, q.student_id))
    /\ [][\A q \in quizzes :
             (q.status = "pending" /\ q \notin quizzes')
             => \E x \in submissions' \ submissions :
                   x.quiz_id = q.id /\ x.student_id = q.student_id]_vars

\* a chat submission was just stored and its quiz is completed
C14_Witness ==
    /\ resp = "submit_exception"
    /\ \E q \in quizzes :
          /\ q.status = "completed"
          /\ Cardinality(RowsFor(submissions, q.id, q.student_id)) = 1

\* C15: a new quiz row has status pending; a completed quiz row never
\* changes again; no step stores a submission for a quiz that was not
\* pending before the step.
C15_StatusChangesOnce ==
    [][/\ \A q \in quizzes' :
             (\A old \in quizzes : old.id # q.id) => q.status = "pending"
       /\ \A q \in quizzes : q.status = "completed" => q \in quizzes'
       /\ \A x \in submissions' \ submissions :
             get_quiz(quizzes, x.quiz_id).status = "pending"]_vars

\* a completed quiz was submitted again and refused
C15_Witness ==
    /\ resp = "400_already_submitted"
    /\ \E q \in quizzes :
          q.status = "completed" /\ RowsFor(submissions, q.id, q.student_id) # {}

\* C16: every stored quiz has a non-empty answer key, and a creation request
\* whose generator result carries no answer key ends in an error with the
\* quiz store unchanged.
C16_PersistedQuizHasKey ==
    /\ \A q \in quizzes : q.answer_key # <<>>
    /\ \A in \in ChatInputs :
          (CreationProceeds(in) /\ in[3].topic = "ok" /\ in[3].gen = "no_key")
          => LET r == ChatOutcome(in) IN
             /\ r.kind = "creation_no_answer_key"
             /\ r.quizzes = quizzes

\* the missing-answer-key error was just returned
C16_Witness ==
    /\ resp = "creation_no_answer_key"
    /\ \A q \in quizzes : q.answer_key # <<>>

\* C17: a creation request whose topic extraction or quiz generation fails
\* ends in the matching failure response and changes neither store.
C17_FailedUpstreamWritesNothing ==
    \A in \in ChatInputs :
        (CreationProceeds(in) /\ (in[3].topic = "none" \/ in[3].gen = "error"))
        => LET r == ChatOutcome(in) IN
           /\ r.kind = IF in[3].topic = "none"
                       THEN "topic_not_understood"
                       ELSE "generation_failed"
           /\ r.quizzes = quizzes
           /\ r.submissions = submissions

\* the generator just failed for a student without a pending quiz
C17_Witness ==
    /\ resp = "generation_failed"
    /\ \E s \in Students : ~HasPending(s)

\* C20: a student's first submission of ten well-formed answers for the
\* student's own pending quiz is accepted and stored under a new id, whatever
\* other students submitted that day.
C20_FirstSubmissionAccepted ==
    \A s \in Students :
        LET p == get_latest_pending_quiz(quizzes, s)
            r == api_submit_quiz(quizzes, submissions, today, p.id, s, KeyFull)
        IN  (p.id # NoId /\ ~check_quiz_submitted(submissions, p.id, s))
            => /\ r.kind = "200_submitted"
               /\ \E x \in r.submissions \ submissions :
                     /\ x.quiz_id = p.id
                     /\ x.student_id = s
                     /\ \A y \in submissions : y.id # x.id

\* ---- store claims
SubmissionsOn(student_id, day) ==
    {x \in submissions : x.student_id = student_id /\ x.submitted_at = day}

C19_SaveQuizAlwaysSucceeds ==
    \A s \in Students :
        \A r \in {save_quiz(quizzes, today, s, KeyFull)} :
           /\ r.ok
           /\ r.quiz_id = QuizId(today, get_today_count(quizzes, today, s) + 1)
           /\ \A q \in quizzes : q.id # r.quiz_id

\* ---- guard, reference and content claims
\* C23: under a pending quiz a message that is neither a submission nor a
\* creation request is rejected when the leakage check flags it, whatever
\* feature it asks for, and is handled as a graph request or a question when
\* the check does not flag it; in both cases the generator is not called and
\* neither store changes, so the quiz stays pending.
C23_LeakCheckedFirst ==
    \A in \in ChatInputs :
        (/\ HasPending(in[1])
         /\ ~should_submit_quiz(in[2])
         /\ ~should_create_quiz(in[2]))
        => LET r == ChatOutcome(in) IN
           /\ r.kind = IF in[3].leak THEN "leak_blocked"
                       ELSE IF in[2].feature = "graph" THEN "graph"
                       ELSE "answer"
           /\ ~r.generated
           /\ r.quizzes = quizzes
           /\ r.submissions = submissions

\* a flagged message was just rejected and the quiz is still pending
C23_Witness ==
    /\ resp = "leak_blocked"
    /\ ~mixed
    /\ \E s \in Students : HasPending(s)

\* C25: every submission row names a stored quiz of the same student, and a
\* submit request for an unknown quiz or for another student's quiz is
\* rejected with both stores unchanged.
C25_SubmissionReferencesOwnQuiz ==
    /\ \A x \in submissions :
          /\ get_quiz(quizzes, x.quiz_id).id = x.quiz_id
          /\ get_quiz(quizzes, x.quiz_id).student_id = x.student_id
    /\ \A in \in ApiInputs :
          (get_quiz(quizzes, in[1]).student_id # in[2])
          => LET r == ApiOutcome(in) IN
             /\ r.kind = IF get_quiz(quizzes, in[1]).id = NoId
                         THEN "404_quiz_not_found"
                         ELSE "403_not_owner"
             /\ r.quizzes = quizzes
             /\ r.submissions = submissions

\* a submit for another student's quiz was just rejected
C25_Witness ==
    /\ resp = "403_not_owner"
    /\ \E q \in quizzes : q.status = "pending"

\* C28: a creation request answered with the quiz-created response has
\* stored a new pending quiz of that student.
C28_CreatedMeansStored ==
    \A in \in ChatInputs :
        LET r == ChatOutcome(in) IN
        r.kind = "quiz_created"
        => \E q \in r.quizzes \ quizzes :
              q.student_id = in[1] /\ q.status = "pending"

\* C30: the answers of every stored submission give one letter A-D for each
\* question 1..10 and nothing else.
C30_StoredAnswersWellFormed ==
    \A x \in submissions : CompleteKey(x.student_answers)

\* ---- claims about requests handled concurrently
\* both workers hold a request of the same kind for the same student (and
\* quiz) and both have passed their check
BothAt(pc) ==
    /\ procs["p1"].pc = pc
    /\ procs["p2"].pc = pc
    /\ procs["p1"].student_id = procs["p2"].student_id
    /\ procs["p1"].quiz_id = procs["p2"].quiz_id

\* the submission table after one request counts and inserts
CountAndInsertSubmission(S, quiz_id, student_id) ==
    insert_submission(S, today, quiz_id, student_id, KeyFull, NumQuestions,
                      get_today_submission_count(S, today, student_id) + 1)
        .submissions

\* the quiz table after one request counts and inserts
CountAndInsertQuiz(Q, student_id) ==
    insert_quiz(Q, today, student_id,
                get_today_count(Q, today, student_id) + 1, KeyFull).quizzes

\* the ids the next two rows of the student would get are free
NextTwoFree(ids, count) ==
    /\ <<today, count + 1>> \notin ids
    /\ <<today, count + 2>> \notin ids

\* C21: when two submit requests for the same (quiz_id, student_id) have
\* both passed the already-submitted check, the schedule in which one counts
\* and inserts and then the other counts and inserts stores two more rows
\* for that pair.
C21_DoubleSubmitStoresTwice ==
    (/\ BothAt("submit_checked")
     /\ NextTwoFree({x.id : x \in submissions},
                    get_today_submission_count(submissions, today,
                                               procs["p1"].student_id)))
    => LET quiz_id == procs["p1"].quiz_id
           student_id == procs["p1"].student_id
           S1 == CountAndInsertSubmission(submissions, quiz_id, student_id)
           S2 == CountAndInsertSubmission(S1, quiz_id, student_id)
       IN  Cardinality(RowsFor(S2, quiz_id, student_id))
              = Cardinality(RowsFor(submissions, quiz_id, student_id)) + 2

\* two rows for one (quiz_id, student_id) are stored and the second request
\* was answered with success
C21_Witness ==
    /\ resp = "200_submitted"
    /\ procs = NoProcs
    /\ \E q \in quizzes :
          Cardinality(RowsFor(submissions, q.id, q.student_id)) = 2

\* C22: when two creation requests of one student have both passed the
\* pending-quiz check, the schedule in which one counts and inserts and then
\* the other counts and inserts leaves the student with two more pending
\* quizzes.
C22_DoubleCreateStoresTwice ==
    (/\ BothAt("create_checked")
     /\ NextTwoFree({q.id : q \in quizzes},
                    get_today_count(quizzes, today, procs["p1"].student_id)))
    => LET student_id == procs["p1"].student_id
           Q1 == CountAndInsertQuiz(quizzes, student_id)
           Q2 == CountAndInsertQuiz(Q1, student_id)
       IN  Cardinality(PendingOf(Q2, student_id))
              = Cardinality(PendingOf(quizzes, student_id)) + 2

\* a student has two pending quizzes and both requests were answered
C22_Witness ==
    /\ resp = "quiz_created"
    /\ procs = NoProcs
    /\ \E s \in Students : Cardinality(PendingOf(quizzes, s)) = 2


\* ---- claims about the per-question view
\* C24: in the view returned by get_submission_with_details a question for
\* which the student gave no answer (shown as "?") is never flagged correct.
C24_UnansweredNeverCorrect ==
    \A i \in DOMAIN gDetails :
        gDetails[i].is_correct => gDetails[i].student_answer # "?"

\* ---- claims about leaving the pending state, sessions and deletion
WellFormedSubmission ==
    [submitKw |-> TRUE, createKw |-> FALSE, pairs |-> PairsRight,
     dashed |-> TRUE, feature |-> "chat"]

QuietExternal == [topic |-> "ok", gen |-> "ok", leak |-> FALSE]

\* the quiz is completed by a submission of 10 well-formed answers of its
\* student, sent on that day by chat or to the submit endpoint
CanComplete(quiz, day) ==
    \/ get_quiz(query(quizzes, submissions, day, quiz.student_id,
                      WellFormedSubmission, QuietExternal).quizzes,
                quiz.id).status = "completed"
    \/ get_quiz(api_submit_quiz(quizzes, submissions, day, quiz.id,
                                quiz.student_id, KeyFull).quizzes,
                quiz.id).status = "completed"

\* C26: whenever no request is in progress and a student has a pending quiz,
\* a submission of 10 well-formed answers by that student, on some day,
\* completes the quiz.
C26_PendingCanBeLeft ==
    \A s \in Students :
        (procs = NoProcs /\ HasPending(s))
        => \E day \in 1..MaxDay :
              CanComplete(get_latest_pending_quiz(quizzes, s), day)

\* C27: a quiz created by a chat request in a session of student T is
\* stored under T's student id.
C27_CreatedUnderSessionOwner ==
    \A in \in ChatInputs :
        \A r \in {rag_query(quizzes, submissions, today, in[1], in[2], in[3])} :
            \A q \in r.quizzes \ quizzes : q.student_id = in[1]

\* C29: when every stored quiz belongs to one student, the next save_quiz
\* of that student succeeds and stores a quiz under an id no stored quiz had.
C29_SaveAfterDeleteSucceeds ==
    \A s \in Students :
        (\A q \in quizzes : q.student_id = s)
        => \A r \in {save_quiz(quizzes, today, s, KeyFull)} :
              /\ r.ok
              /\ \E q \in r.quizzes \ quizzes :
                    q.id \notin {old.id : old \in quizzes}


====
